---- MODULE Spec2Model ----
(***************************************************************************)
(* The HTTP/SSE gateway of the Canvas MCP server (src/src/index.ts, the    *)
(* definition of startServer at lines 173-249, which supersedes the one at *)
(* lines 60-107): the registry `transports`, the routes GET /health,       *)
(* GET /sse and POST /message, and the cleanup callback set on each        *)
(* transport.                                                              *)
(*                                                                         *)
(* Node runs one handler segment at a time.  Every await of GET /sse and   *)
(* POST /message resolves through microtasks only (no timer or socket      *)
(* event lies between them), so a handler runs to its end before any other *)
(* request or socket event is delivered: while `sse.pc` is not "idle" no   *)
(* other action is enabled.  The steps of GET /sse are kept apart so that  *)
(* the order of its statements is visible in the states.                   *)
(*                                                                         *)
(* SSEServerTransport and McpServer are the MCP SDK's; index.ts only calls *)
(* them.  What the calls do is modelled at their call sites:               *)
(*   new SSEServerTransport   draws a random UUID as sessionId;            *)
(*   server.connect(t)        keeps the callbacks already set on t, adds   *)
(*                            its own after them, and calls t.start();     *)
(*   t.start()                throws when t is already started, otherwise  *)
(*                            writes the headers and the endpoint event    *)
(*                            (which carries the sessionId) and listens    *)
(*                            for the response's 'close', on which it      *)
(*                            calls t.onclose;                             *)
(*   t.handlePostMessage      throws when t is not started (after writing  *)
(*                            a 500 itself), answers 400 or 202 otherwise; *)
(*                            any other exception it raises is the         *)
(*                            outcome "throws".                            *)
(***************************************************************************)
EXTENDS Integers, Sequences, FiniteSets, TLC

\* Bounds of the model.
MaxSessions == 3
MaxReqs == 2
MaxCleanups == 2
MaxAtt == 2

VARIABLES
    env,           \* the environment: CANVAS_API_TOKEN and PORT set or not
    mode,          \* "none" | "http" | "stdio": what startServer has started
    proc,          \* "starting" | "up" | "exited": the Node process
    transports,    \* the Map<string, SSEServerTransport>: sessionId -> transport
    nT,            \* number of SSEServerTransport objects constructed so far
    tSid,          \* transport -> its sessionId
    tState,        \* transport -> "none" | "new" | "started" | "closed"
    tOnclose,      \* transport -> the callbacks its onclose runs, in order
    stream,        \* transport -> the events written on its SSE response
    pending,       \* transport -> the accepted requests not yet answered
    cleanups,      \* transport -> how often the gateway's callback has run
    srvTransport,  \* McpServer instance -> the transport it is connected to (0: none)
    sse,           \* the GET /sse handler in progress: its position and locals
    last,          \* the last HTTP response given on a non-streaming route
    threwOn,       \* sessionIds for which handlePostMessage has thrown
    unhandled,     \* a handler's promise was rejected with nobody catching it
    sseRejected,   \* the transports whose GET /sse handler ended rejected
    toolOut,       \* the last failure a tool handler has reported
    doc            \* the get-submission-documents call in progress

vars == <<env, mode, proc, transports, nT, tSid, tState, tOnclose, stream, pending,
          cleanups, srvTransport, sse, last, threwOn, unhandled, sseRejected,
          toolOut, doc>>

\* What the gateway's routes never touch.
outside == <<env, mode, toolOut, doc>>

Handles == 1..MaxSessions

\* Session identifiers are opaque tokens; one more than can ever be issued.
SessionIds == {<<"sid", i>> : i \in 1..(MaxSessions + 1)}

NoSid == <<"sid", 0>>

----------------------------------------------------------------------------
\* Map<string, SSEServerTransport>

MapSet(m, k, v) == [x \in (DOMAIN m) \cup {k} |-> IF x = k THEN v ELSE m[x]]

MapDelete(m, k) == [x \in (DOMAIN m) \ {k} |-> m[x]]

\* undefined is 0
MapGet(m, k) == IF k \in DOMAIN m THEN m[k] ELSE 0

EmptyMap == [x \in {} |-> 0]

----------------------------------------------------------------------------
\* Response bodies: the content type, the top-level keys of a JSON body, the text.

JsonBody(keys, text) == [ctype |-> "json", keys |-> keys, text |-> text]

TextBody(text) == [ctype |-> "text", keys |-> {}, text |-> text]

NotFoundBody == JsonBody({"error"}, "Session not found")

\* { jsonrpc: "2.0", error: { code, message }, id: null }
JsonRpcErrorBody == JsonBody({"jsonrpc", "error", "id"}, "Internal server error")

InternalErrorBody == JsonBody({"error"}, "Internal server error")

HealthBody == JsonBody({"status", "server"}, "ok")

NoResponse == [n |-> 0, method |-> "none", sid |-> NoSid, status |-> 0,
               body |-> TextBody(""), via |-> 0, threw |-> FALSE]

Response(method, sid, status, body, via, threw) ==
    [n |-> last.n + 1, method |-> method, sid |-> sid, status |-> status,
     body |-> body, via |-> via, threw |-> threw]

----------------------------------------------------------------------------
\* The identifiers given to the transports constructed so far.
Issued == {tSid[t] : t \in 1..nT}

\* A generator that repeats itself: every third token is the first again.
ReusedSessionId(issued) == <<"sid", (Cardinality(issued) % 2) + 1>>

\* randomUUID(): a token no earlier transport has.  Tokens are opaque, so the
\* least unused one stands for any of them.
NewSessionId(issued) ==
    LET free == {i \in 1..(MaxSessions + 1) : <<"sid", i>> \notin issued}
    IN  <<"sid", CHOOSE i \in free : \A j \in free : i <= j>>

\* The first event of the stream: the POST endpoint with the sessionId.
EndpointEvent(sid) == <<"endpoint", sid>>

MessageEvent(m) == <<"message", <<"sid", m>>>>

\* A callback that forgets to delete.
ReleaseNoop(reg, sid) == reg

\* A callback that empties the registry (transports.clear()).
ReleaseClear(reg, sid) == EmptyMap

\* transports.delete(transport.sessionId)
Release(reg, sid) == MapDelete(reg, sid)

\* A connect() that assigns transport.onclose without calling the one set before.
ConnectOverwrites(prev) == <<"protocol">>

\* server.connect(transport): the transport's callbacks after it.
ConnectCallbacks(prev) == Append(prev, "protocol")

Runs(cbs, name) == \E i \in 1..Len(cbs) : cbs[i] = name

Count(cbs, name) == Cardinality({i \in 1..Len(cbs) : cbs[i] = name})

----------------------------------------------------------------------------
\* No tool handler has failed yet.
NoToolOut == [m |-> 0, t |-> 0, text |-> "", cause |-> ""]

\* No get-submission-documents call has been made.
NoDoc == [pc |-> "idle"]

\* A start-up that does not look at the credential.
ConfigUnchecked(e) == TRUE

\* if (!config.apiToken) ... process.exit(1): the credential is there.
ConfigValid(e) == e.token

Init ==
    /\ env \in [token : BOOLEAN, port : BOOLEAN]
    /\ mode = "none"
    /\ sseRejected = {}
    /\ toolOut = NoToolOut
    /\ doc = NoDoc
    /\ proc = "starting"
    /\ transports = EmptyMap
    /\ nT = 0
    /\ tSid = [t \in Handles |-> NoSid]
    /\ tState = [t \in Handles |-> "none"]
    /\ tOnclose = [t \in Handles |-> <<>>]
    /\ stream = [t \in Handles |-> <<>>]
    /\ pending = [t \in Handles |-> {}]
    /\ cleanups = [t \in Handles |-> 0]
    /\ srvTransport = [s \in Handles |-> 0]
    /\ sse = [pc |-> "idle", t |-> 0, srv |-> 0]
    /\ last = NoResponse
    /\ threwOn = {}
    /\ unhandled = FALSE

\* What start-up leaves alone.
gateway == <<transports, nT, tSid, tState, tOnclose, stream, pending, cleanups,
             srvTransport, sse, last, threwOn, unhandled, sseRejected>>

\* The credential is missing: console.error and process.exit(1), before
\* startServer is reached.
ConfigExit ==
    /\ proc = "starting"
    /\ ~ConfigValid(env)
    /\ proc' = "exited"
    /\ UNCHANGED <<env, mode, toolOut, doc, gateway>>

\* startServer with PORT set: the routes are registered and app.listen called.
StartHttp ==
    /\ proc = "starting"
    /\ ConfigValid(env)
    /\ env.port
    /\ proc' = "up"
    /\ mode' = "http"
    /\ UNCHANGED <<env, toolOut, doc, gateway>>

\* startServer without PORT: one server connected to a StdioServerTransport.
StartStdio ==
    /\ proc = "starting"
    /\ ConfigValid(env)
    /\ ~env.port
    /\ proc' = "up"
    /\ mode' = "stdio"
    /\ UNCHANGED <<env, toolOut, doc, gateway>>

\* No handler segment is running: the event loop may deliver the next event.
Idle == proc = "up" /\ mode = "http" /\ sse.pc = "idle"

----------------------------------------------------------------------------
\* GET /health
Health ==
    /\ Idle
    /\ last.n < MaxReqs
    /\ last' = Response("GET", NoSid, 200, HealthBody, 0, FALSE)
    /\ UNCHANGED <<proc, transports, nT, tSid, tState, tOnclose, stream, pending,
                   cleanups, srvTransport, sse, threwOn, unhandled>>
    /\ UNCHANGED <<outside, sseRejected>>

----------------------------------------------------------------------------
\* One module-level server for every connection.
SharedServer(n) == 1

\* createServer(): a new McpServer, the one after the n made so far.
CreateServer(n) == n + 1

\* GET /sse: createServer() and new SSEServerTransport('/message', res)
SseOpen ==
    /\ Idle
    /\ nT < MaxSessions
    /\ nT' = nT + 1
    /\ tSid' = [tSid EXCEPT ![nT + 1] = NewSessionId(Issued)]
    /\ tState' = [tState EXCEPT ![nT + 1] = "new"]
    /\ sse' = [pc |-> "store", t |-> nT + 1, srv |-> CreateServer(nT)]
    /\ UNCHANGED <<proc, transports, tOnclose, stream, pending, cleanups,
                   srvTransport, last, threwOn, unhandled>>
    /\ UNCHANGED <<outside, sseRejected>>

\* The handler without its transports.set.
SseStoreSkipped ==
    /\ proc = "up"
    /\ sse.pc = "store"
    /\ sse' = [sse EXCEPT !.pc = "onclose"]
    /\ UNCHANGED <<proc, transports, nT, tSid, tState, tOnclose, stream, pending,
                   cleanups, srvTransport, last, threwOn, unhandled>>
    /\ UNCHANGED <<outside, sseRejected>>

\* transports.set(transport.sessionId, transport)
SseStore ==
    /\ proc = "up"
    /\ sse.pc = "store"
    /\ transports' = MapSet(transports, tSid[sse.t], sse.t)
    /\ sse' = [sse EXCEPT !.pc = "onclose"]
    /\ UNCHANGED <<proc, nT, tSid, tState, tOnclose, stream, pending, cleanups,
                   srvTransport, last, threwOn, unhandled>>
    /\ UNCHANGED <<outside, sseRejected>>

\* transport.onclose = () => { transports.delete(transport.sessionId) }
SseSetOnclose ==
    /\ proc = "up"
    /\ sse.pc = "onclose"
    /\ tOnclose' = [tOnclose EXCEPT ![sse.t] = <<"gateway">>]
    /\ sse' = [sse EXCEPT !.pc = "connect"]
    /\ UNCHANGED <<proc, transports, nT, tSid, tState, stream, pending, cleanups,
                   srvTransport, last, threwOn, unhandled>>
    /\ UNCHANGED <<outside, sseRejected>>

\* await server.connect(transport): the server takes the transport, chains its
\* callbacks after those already set, and starts the transport.
SseConnect ==
    /\ proc = "up"
    /\ sse.pc = "connect"
    /\ srvTransport' = [srvTransport EXCEPT ![sse.srv] = sse.t]
    /\ tOnclose' = [tOnclose EXCEPT ![sse.t] = ConnectCallbacks(tOnclose[sse.t])]
    /\ IF tState[sse.t] = "started"
       THEN \* start() throws, connect rejects, the handler's promise with it
            /\ unhandled' = TRUE
            /\ sseRejected' = sseRejected \cup {sse.t}
            /\ sse' = [pc |-> "idle", t |-> 0, srv |-> 0]
            /\ UNCHANGED <<tState, stream>>
       ELSE /\ tState' = [tState EXCEPT ![sse.t] = "started"]
            /\ stream' = [stream EXCEPT ![sse.t] = <<EndpointEvent(tSid[sse.t])>>]
            /\ sse' = [sse EXCEPT !.pc = "start"]
            /\ UNCHANGED <<unhandled, sseRejected>>
    /\ UNCHANGED <<proc, transports, nT, tSid, pending, cleanups, last, threwOn>>
    /\ UNCHANGED outside

\* await transport.start(): the transport connect() has started throws
\* "SSEServerTransport already started!", and nothing catches it.
SseStart ==
    /\ proc = "up"
    /\ sse.pc = "start"
    /\ IF tState[sse.t] = "started"
       THEN /\ unhandled' = TRUE
            /\ sseRejected' = sseRejected \cup {sse.t}
            /\ UNCHANGED <<tState, stream>>
       ELSE /\ tState' = [tState EXCEPT ![sse.t] = "started"]
            /\ stream' = [stream EXCEPT ![sse.t] = <<EndpointEvent(tSid[sse.t])>>]
            /\ UNCHANGED <<unhandled, sseRejected>>
    /\ sse' = [pc |-> "idle", t |-> 0, srv |-> 0]
    /\ UNCHANGED <<proc, transports, nT, tSid, tOnclose, pending, cleanups,
                   srvTransport, last, threwOn>>
    /\ UNCHANGED outside

----------------------------------------------------------------------------
\* The callbacks of transport t run: the gateway's removes the registry entry,
\* the server's lets go of the transport.
RunOnclose(t) ==
    /\ transports' = IF Runs(tOnclose[t], "gateway")
                     THEN Release(transports, tSid[t])
                     ELSE transports
    /\ cleanups' = [cleanups EXCEPT ![t] = @ + Count(tOnclose[t], "gateway")]
    /\ srvTransport' = [s \in Handles |->
                          IF srvTransport[s] = t /\ Runs(tOnclose[t], "protocol")
                          THEN 0 ELSE srvTransport[s]]

\* The response of a started transport closes (the peer disconnects, the
\* socket fails or is destroyed): _sseResponse is dropped and onclose called.
PeerDisconnect(t) ==
    /\ Idle
    /\ tState[t] = "started"
    /\ tState' = [tState EXCEPT ![t] = "closed"]
    /\ RunOnclose(t)
    /\ UNCHANGED <<proc, nT, tSid, tOnclose, stream, pending, sse, last,
                   threwOn, unhandled>>
    /\ UNCHANGED <<outside, sseRejected>>

----------------------------------------------------------------------------
\* What transport.handlePostMessage may do on a started transport.
Outcomes == {"accepted", "invalid", "throws"}

\* A lookup that falls back on some registered transport.
LookupOrAny(reg, sid) ==
    IF sid \in DOMAIN reg THEN reg[sid]
    ELSE IF DOMAIN reg = {} THEN 0
    ELSE reg[CHOOSE k \in DOMAIN reg : TRUE]

\* transports.get(sessionId)
Lookup(reg, sid) == MapGet(reg, sid)

\* A catch block that drops the session.
OnPostErrorDrops(reg, sid) == MapDelete(reg, sid)

\* The catch block of POST /message: what it leaves of the registry.
OnPostError(reg, sid) == reg

\* POST /message?sessionId=sid
PostMessage(sid, outcome) ==
    LET t == Lookup(transports, sid) IN
    /\ Idle
    /\ last.n < MaxReqs
    /\ transports' = IF t # 0 /\ (tState[t] # "started" \/ outcome = "throws")
                     THEN OnPostError(transports, sid)
                     ELSE transports
    /\ IF t = 0
       THEN \* res.status(404).json({ error: 'Session not found' })
            /\ last' = Response("POST", sid, 404, NotFoundBody, 0, FALSE)
            /\ UNCHANGED <<pending, threwOn, unhandled>>
       ELSE IF tState[t] # "started"
       THEN \* the transport answers 500 itself and throws; the catch block's
            \* res.status(500).json() then throws on the headers already sent
            /\ last' = Response("POST", sid, 500,
                                TextBody("SSE connection not established"), t, TRUE)
            /\ threwOn' = threwOn \cup {sid}
            /\ unhandled' = TRUE
            /\ UNCHANGED pending
       ELSE CASE outcome = "accepted" ->
                   /\ last' = Response("POST", sid, 202, TextBody("Accepted"), t, FALSE)
                   /\ pending' = [pending EXCEPT ![t] = @ \cup {last.n + 1}]
                   /\ UNCHANGED <<threwOn, unhandled>>
              [] outcome = "invalid" ->
                   /\ last' = Response("POST", sid, 400, TextBody("Invalid message"), t, FALSE)
                   /\ UNCHANGED <<pending, threwOn, unhandled>>
              [] outcome = "throws" ->
                   \* res.status(500).json({ error: 'Internal server error' })
                   /\ last' = Response("POST", sid, 500, InternalErrorBody, t, TRUE)
                   /\ threwOn' = threwOn \cup {sid}
                   /\ UNCHANGED <<pending, unhandled>>
    /\ UNCHANGED <<proc, nT, tSid, tState, tOnclose, stream, cleanups,
                   srvTransport, sse>>
    /\ UNCHANGED <<outside, sseRejected>>

\* An answer that is not taken off the waiting requests.
RespondKeepsPending(t, m) ==
    /\ Idle
    /\ m \in pending[t]
    /\ stream' = IF tState[t] = "started"
                 THEN [stream EXCEPT ![t] = Append(@, MessageEvent(m))]
                 ELSE stream
    /\ UNCHANGED <<proc, transports, nT, tSid, tState, tOnclose, cleanups, pending,
                   srvTransport, sse, last, threwOn, unhandled>>
    /\ UNCHANGED <<outside, sseRejected>>

\* The server answers request m over the transport it was received on:
\* transport.send() writes a message event, or throws "Not connected".
Respond(t, m) ==
    /\ Idle
    /\ m \in pending[t]
    /\ pending' = [pending EXCEPT ![t] = @ \ {m}]
    /\ stream' = IF tState[t] = "started"
                 THEN [stream EXCEPT ![t] = Append(@, MessageEvent(m))]
                 ELSE stream
    /\ UNCHANGED <<proc, transports, nT, tSid, tState, tOnclose, cleanups,
                   srvTransport, sse, last, threwOn, unhandled>>
    /\ UNCHANGED <<outside, sseRejected>>

\* A DELETE route that releases the session.
DeleteReleases(reg, sid) == MapDelete(reg, sid)

\* What a DELETE does to the registry: no route handles DELETE.
DeleteEffect(reg, sid) == reg

\* DELETE /message?sessionId=sid: no route matches, the framework answers 404.
DeleteRequest(sid) ==
    /\ Idle
    /\ last.n < MaxReqs
    /\ last' = Response("DELETE", sid, 404, TextBody("Cannot DELETE /message"), 0, FALSE)
    /\ transports' = DeleteEffect(transports, sid)
    /\ UNCHANGED <<proc, nT, tSid, tState, tOnclose, stream, pending, cleanups,
                   srvTransport, sse, threwOn, unhandled>>
    /\ UNCHANGED <<outside, sseRejected>>

\* A rejected handler promise nobody catches may end the process.
ProcessExit ==
    /\ Idle
    /\ unhandled
    /\ proc' = "exited"
    /\ UNCHANGED <<transports, nT, tSid, tState, tOnclose, stream, pending,
                   cleanups, srvTransport, sse, last, threwOn, unhandled>>
    /\ UNCHANGED <<outside, sseRejected>>

----------------------------------------------------------------------------
Next ==
    \/ ConfigExit
    \/ StartHttp
    \/ StartStdio
    \/ Health
    \/ SseOpen
    \/ SseStore
    \/ SseSetOnclose
    \/ SseConnect
    \/ SseStart
    \/ \E t \in Handles : PeerDisconnect(t)
    \/ \E sid \in SessionIds, o \in Outcomes : PostMessage(sid, o)
    \/ \E t \in Handles, m \in 1..MaxReqs : Respond(t, m)
    \/ \E sid \in SessionIds : DeleteRequest(sid)
    \/ ProcessExit

Spec == Init /\ [][Next]_vars

\* The cleanup callback of a closed transport is called once more.
CleanupAgain(t) ==
    /\ Idle
    /\ tState[t] = "closed"
    /\ Runs(tOnclose[t], "gateway")
    /\ cleanups[t] < MaxCleanups
    /\ transports' = Release(transports, tSid[t])
    /\ cleanups' = [cleanups EXCEPT ![t] = @ + 1]
    /\ UNCHANGED <<proc, nT, tSid, tState, tOnclose, stream, pending,
                   srvTransport, sse, last, threwOn, unhandled>>
    /\ UNCHANGED <<outside, sseRejected>>

NextRelease ==
    \/ Next
    \/ \E t \in Handles : CleanupAgain(t)

SpecRelease == Init /\ [][NextRelease]_vars

TypeOK ==
    /\ proc \in {"starting", "up", "exited"}
    /\ mode \in {"none", "http", "stdio"}
    /\ sseRejected \subseteq Handles
    /\ DOMAIN transports \subseteq SessionIds
    /\ \A k \in DOMAIN transports : transports[k] \in Handles
    /\ nT \in 0..MaxSessions
    /\ \A t \in Handles : tState[t] \in {"none", "new", "started", "closed"}
    /\ sse.pc \in {"idle", "store", "onclose", "connect", "start"}
    /\ last.n \in 0..MaxReqs
    /\ threwOn \subseteq SessionIds
    /\ unhandled \in BOOLEAN

----------------------------------------------------------------------------
(***************************************************************************)
(* The tool get-submission-documents (src/unnamed/part_001, lines 110-184).*)
(* Its handler awaits canvas.getSubmissionDocuments and formats what comes *)
(* back.  CanvasClient is not among the sources: its result is modelled as *)
(* the specification describes the Submission Document Aggregator and as   *)
(* src/unnamed/part_000 declares SubmissionDocumentResult and              *)
(* DownloadedFile.  Of an attachment the id, the content type, the size    *)
(* and the url are kept; the handler copies the other fields through.      *)
(***************************************************************************)

\* undefined
Absent == <<"undefined", 0>>

\* file.size < 1024 * 100
InlineLimit == 1024 * 100

Marker == <<"[FILE_TOO_LARGE_FOR_DISPLAY]", 0>>

DownloadedBelow == <<"[DOWNLOADED_BELOW]", 0>>

Anonymized == "[ANONYMIZED]"

UserIds == {"u1", "u2"}

ContentTypes == {"text/plain", "application/pdf"}

\* contentType.includes('text')
IsText(ctype) == ctype \in {"text/plain", "text/html"}

\* The sizes around the limit.
Sizes == {InlineLimit - 1, InlineLimit, InlineLimit + 1}

AttachmentKinds == [ctype : ContentTypes, size : Sizes]

\* The attachment lists of a submission, of at most n attachments.
AttachmentLists(n) == UNION {[1..k -> AttachmentKinds] : k \in 0..n}

UrlOf(i) == <<"url", i>>

\* The bytes of attachment i, and the two ways of putting them in a string.
BytesOf(i) == <<"bytes", i>>

Base64Of(bytes) == <<"base64", bytes[2]>>

Utf8Of(bytes) == <<"utf-8", bytes[2]>>

\* The Submission Document Aggregator: the submission with its true user id,
\* the attachments as listed, and, only when asked to download, one
\* DownloadedFile per attachment, with the data or with the error of its fetch.
Aggregate(user, atts, downloadFiles, fetchOk) ==
    [submission |-> [user_id |-> user],
     attachments |-> [i \in 1..Len(atts) |->
                        [id |-> i, ctype |-> atts[i].ctype, size |-> atts[i].size,
                         url |-> UrlOf(i)]],
     downloadedFiles |->
        IF downloadFiles
        THEN [i \in 1..Len(atts) |->
                [id |-> i, ctype |-> atts[i].ctype, size |-> atts[i].size,
                 data |-> IF fetchOk[i] THEN BytesOf(i) ELSE Absent,
                 dataBase64 |-> IF fetchOk[i] THEN Base64Of(BytesOf(i)) ELSE Absent,
                 error |-> IF fetchOk[i] THEN Absent ELSE <<"error", i>>]]
        ELSE <<>>,
     fetches |-> IF downloadFiles THEN Len(atts) ELSE 0]

\* A summary that shows the user id whatever the flag.
SummaryUserIdShown(anonymous, uid) == uid

\* user_id: anonymous ? '[ANONYMIZED]' : result.submission.user_id
SummaryUserId(anonymous, uid) == IF anonymous THEN Anonymized ELSE uid

\* An attachment entry that always hides its url.
AttachmentUrlHidden(downloadFiles, url) == DownloadedBelow

\* url: downloadFiles ? '[DOWNLOADED_BELOW]' : attachment.url
AttachmentUrl(downloadFiles, url) == IF downloadFiles THEN DownloadedBelow ELSE url

\* A test on the size alone.
InlinedBySizeOnly(ctype, size) == size < InlineLimit

\* The limit as a closed boundary.
InlinedUpToLimit(ctype, size) == IsText(ctype) \/ size <= InlineLimit

\* file.contentType?.includes('text') || file.size < 1024 * 100
Inlined(ctype, size) == IsText(ctype) \/ size < InlineLimit

\* One entry of downloaded_files.
FormatFile(f) ==
    [id |-> f.id, content_type |-> f.ctype, size |-> f.size,
     has_content |-> f.data # Absent,
     content_base64 |-> IF Inlined(f.ctype, f.size) THEN f.dataBase64 ELSE Marker,
     error |-> f.error]

\* A mapping that leaves out the files whose download failed.
FormatFilesFetched(files) ==
    LET ok == SelectSeq(files, LAMBDA f : f.error = Absent)
    IN  [i \in 1..Len(ok) |-> FormatFile(ok[i])]

\* result.downloadedFiles.map(...)
FormatFiles(files) == [i \in 1..Len(files) |-> FormatFile(files[i])]

\* The response object the handler serialises.
FormatResponse(result, downloadFiles, anonymous) ==
    [submission |-> [user_id |-> SummaryUserId(anonymous, result.submission.user_id)],
     attachments |-> [i \in 1..Len(result.attachments) |->
                        [id |-> result.attachments[i].id,
                         content_type |-> result.attachments[i].ctype,
                         size |-> result.attachments[i].size,
                         url |-> AttachmentUrl(downloadFiles, result.attachments[i].url)]],
     downloaded_files |-> IF downloadFiles THEN FormatFiles(result.downloadedFiles)
                          ELSE <<>>]

\* The failures of an upstream call: Error instances with a message.
UpstreamFailures ==
    {[isError |-> TRUE, message |-> "Not Found"],
     [isError |-> TRUE, message |-> "Request failed with status code 503"]}

ErrorPrefix == "Failed to fetch submission documents: "

\* An error text that leaves the cause out.
WrapErrorGeneric(cause) == ErrorPrefix \o "Unknown error"

\* if (error instanceof Error) throw new Error(`Failed to fetch submission
\* documents: ${error.message}`); throw new Error('... Unknown error')
WrapError(cause) ==
    IF cause.isError THEN ErrorPrefix \o cause.message
    ELSE ErrorPrefix \o "Unknown error"

\* The handler is called and awaits canvas.getSubmissionDocuments.
DocCall(downloadFiles, anonymous, user, atts) ==
    /\ proc = "up"
    /\ doc.pc = "idle"
    /\ doc' = [pc |-> "called", downloadFiles |-> downloadFiles,
               anonymous |-> anonymous, user |-> user, atts |-> atts]
    /\ UNCHANGED <<env, mode, proc, toolOut, gateway>>

\* The aggregator returns; the handler formats the response and returns it.
DocReturn(fetchOk) ==
    /\ proc = "up"
    /\ doc.pc = "called"
    /\ LET result == Aggregate(doc.user, doc.atts, doc.downloadFiles, fetchOk)
       IN  doc' = [pc |-> "done", downloadFiles |-> doc.downloadFiles,
                   anonymous |-> doc.anonymous, user |-> doc.user, atts |-> doc.atts,
                   fetchOk |-> fetchOk, result |-> result,
                   response |-> FormatResponse(result, doc.downloadFiles, doc.anonymous)]
    /\ UNCHANGED <<env, mode, proc, toolOut, gateway>>

\* The aggregator fails; the handler throws the wrapped error.
DocThrow(cause) ==
    /\ proc = "up"
    /\ doc.pc = "called"
    /\ doc' = [pc |-> "failed", cause |-> cause.message, text |-> WrapError(cause)]
    /\ UNCHANGED <<env, mode, proc, toolOut, gateway>>

\* Which fetches succeed: all of them when nothing is downloaded.
FetchOutcomes ==
    IF doc.pc = "called" /\ doc.downloadFiles
    THEN [1..Len(doc.atts) -> BOOLEAN]
    ELSE IF doc.pc = "called" THEN {[i \in 1..Len(doc.atts) |-> TRUE]} ELSE {}

NextDocs ==
    \/ ConfigExit
    \/ StartHttp
    \/ StartStdio
    \/ \E d \in BOOLEAN, a \in BOOLEAN, u \in UserIds, atts \in AttachmentLists(MaxAtt) :
          DocCall(d, a, u, atts)
    \/ \E f \in FetchOutcomes : DocReturn(f)
    \/ \E c \in UpstreamFailures : DocThrow(c)

SpecDocs == Init /\ [][NextDocs]_vars

----------------------------------------------------------------------------
\* Request m of transport t is a tool call whose upstream call fails: the
\* handler throws the wrapped error and the server answers the request with
\* it, over the transport the request came in on.
ToolFails(t, m, cause) ==
    /\ Idle
    /\ m \in pending[t]
    /\ pending' = [pending EXCEPT ![t] = @ \ {m}]
    /\ stream' = IF tState[t] = "started"
                 THEN [stream EXCEPT ![t] = Append(@, MessageEvent(m))]
                 ELSE stream
    /\ toolOut' = [m |-> m, t |-> t, text |-> WrapError(cause),
                   cause |-> cause.message]
    /\ UNCHANGED <<proc, transports, nT, tSid, tState, tOnclose, cleanups,
                   srvTransport, sse, last, threwOn, unhandled>>
    /\ UNCHANGED <<env, mode, doc, sseRejected>>

NextTools ==
    \/ Next
    \/ \E t \in Handles, m \in 1..MaxReqs, c \in UpstreamFailures : ToolFails(t, m, c)

SpecTools == Init /\ [][NextTools]_vars

----------------------------------------------------------------------------
\* A step that answers a request on a non-streaming route.
Answered(method) == last'.n # last.n /\ last'.method = method

\* C1: a POST /message whose sessionId is not a key of the registry is answered
\* 404 'Session not found', and the registry, the transports and their number
\* are the same after it: no session is created.
C1_UnknownSessionNotFound ==
    [][(Answered("POST") /\ last'.sid \notin DOMAIN transports)
         => /\ last'.status = 404
            /\ last'.body = JsonBody({"error"}, "Session not found")
            /\ last'.via = 0
            /\ transports' = transports
            /\ nT' = nT
            /\ tState' = tState]_vars

\* A POST for the identifier of a released session was answered 404 while
\* another session is registered.
C1_Witness ==
    /\ last.method = "POST"
    /\ last.status = 404
    /\ \E t \in 1..nT : tSid[t] = last.sid /\ tState[t] = "closed"
    /\ DOMAIN transports # {}

\* C2: no two transports ever constructed share an identifier (so a released
\* identifier is never given to a later session), every registry entry is the
\* transport that owns its key, and at most one server is connected to it.
C2_OneSessionPerIdentifier ==
    /\ \A t, u \in 1..nT : t # u => tSid[t] # tSid[u]
    /\ \A k \in DOMAIN transports : tSid[transports[k]] = k
    /\ \A k \in DOMAIN transports :
         Cardinality({s \in Handles : srvTransport[s] = transports[k]}) <= 1

\* A session was released and two later ones are registered.
C2_Witness ==
    /\ nT = 3
    /\ tState[1] = "closed"
    /\ Cardinality(DOMAIN transports) = 2
    /\ sse.pc = "idle"

C5_CloseIsIsolated ==
    [][/\ \A t \in Handles :
            (tState[t] = "started" /\ tState'[t] = "closed")
              => /\ \A k \in (DOMAIN transports) \ {tSid[t]} :
                      k \in DOMAIN transports' /\ transports'[k] = transports[k]
                 /\ \A u \in Handles \ {t} :
                      /\ tState'[u] = tState[u]
                      /\ tSid'[u] = tSid[u]
                      /\ tOnclose'[u] = tOnclose[u]
                      /\ stream'[u] = stream[u]
                      /\ pending'[u] = pending[u]
                      /\ cleanups'[u] = cleanups[u]
                 /\ \A s \in Handles :
                      srvTransport[s] # t => srvTransport'[s] = srvTransport[s]
       /\ (Answered("POST") /\ last'.sid \in DOMAIN transports)
              => /\ last'.via = transports[last'.sid]
                 /\ tSid[last'.via] = last'.sid]_vars

\* Three sessions were open together, the third has closed, and a message
\* for the first was accepted by the first.
C5_Witness ==
    /\ tState[1] = "started"
    /\ tState[2] = "started"
    /\ tState[3] = "closed"
    /\ Cardinality(DOMAIN transports) = 2
    /\ last.method = "POST"
    /\ last.status = 202
    /\ last.via = 1

\* C6: a cleanup callback called for an identifier that is no longer in the
\* registry changes nothing but its own count (no entry of another session,
\* no transport, no error), and a POST /message for an identifier whose
\* cleanup has run is answered 404.
C6_ReleaseIsIdempotent ==
    [][/\ \A t \in Handles :
            (cleanups'[t] > cleanups[t] /\ tSid[t] \notin DOMAIN transports)
              => /\ transports' = transports
                 /\ UNCHANGED <<proc, nT, tSid, tState, tOnclose, stream, pending,
                                srvTransport, sse, last, threwOn, unhandled>>
       /\ (Answered("POST")
             /\ \E t \in 1..nT : tSid[t] = last'.sid /\ cleanups[t] >= 1)
              => last'.status = 404 /\ last'.via = 0]_vars

\* A cleanup has run twice while another session is registered, and a POST
\* for its identifier was answered 404.
C6_Witness ==
    /\ DOMAIN transports # {}
    /\ last.method = "POST"
    /\ last.status = 404
    /\ \E t \in 1..nT : tSid[t] = last.sid /\ cleanups[t] >= 2

\* C7: when handling a POST /message for a registered session throws, the
\* answer is 500 and the registry, the transports and the servers are as
\* before; a later POST for an identifier on which a POST threw is still
\* handed to the same registered transport.
C7_ErrorLeavesSession ==
    [][/\ (Answered("POST") /\ last'.threw)
              => /\ last'.status = 500
                 /\ last'.via = transports[last'.sid]
                 /\ transports' = transports
                 /\ tState' = tState
                 /\ tOnclose' = tOnclose
                 /\ srvTransport' = srvTransport
       /\ (Answered("POST") /\ last'.sid \in threwOn
             /\ last'.sid \in DOMAIN transports)
              => /\ last'.status # 404
                 /\ last'.via = transports[last'.sid]
                 /\ tSid[last'.via] = last'.sid]_vars

\* After a POST for a session threw, the next POST for it was accepted by the
\* same transport.
C7_Witness ==
    /\ last.method = "POST"
    /\ last.status = 202
    /\ last.sid \in threwOn
    /\ MapGet(transports, last.sid) = last.via
    /\ tState[last.via] = "started"

\* C8: every 500 response carries the JSON-RPC style body with the members
\* jsonrpc, error and id.
C8_Original ==
    last.status = 500 => last.body.ctype = "json" /\ last.body.keys = {"jsonrpc", "error", "id"}

\* C8 as amended: every 500 response of POST /message is the JSON object with
\* the single member error, 'Internal server error'.
C8_InternalErrorBody ==
    last.status = 500
      => /\ last.method = "POST"
         /\ last.body = JsonBody({"error"}, "Internal server error")

\* A POST for a registered session was answered 500.
C8_Witness ==
    /\ last.status = 500
    /\ last.threw
    /\ last.sid \in DOMAIN transports

\* C9: a DELETE naming a live session releases its registry record and closes
\* its transport.
C9_Original ==
    [][(Answered("DELETE") /\ last'.sid \in DOMAIN transports)
         => /\ last'.sid \notin DOMAIN transports'
            /\ tState'[transports[last'.sid]] = "closed"]_vars

\* C9 as amended: a DELETE is answered 404 and changes neither the registry
\* nor a transport; an entry leaves the registry only in a step in which its
\* transport goes from started to closed.
C9_DeleteChangesNothing ==
    [][/\ Answered("DELETE")
              => /\ last'.status = 404
                 /\ transports' = transports
                 /\ tState' = tState
                 /\ cleanups' = cleanups
                 /\ srvTransport' = srvTransport
       /\ \A k \in DOMAIN transports :
            k \notin DOMAIN transports'
              => /\ tState[transports[k]] = "started"
                 /\ tState'[transports[k]] = "closed"]_vars

\* A DELETE named a session that is registered and open.
C9_Witness ==
    /\ last.method = "DELETE"
    /\ last.sid \in DOMAIN transports
    /\ tState[transports[last.sid]] = "started"

\* C10: a started transport has an identifier and is registered under it; the
\* first event on every stream is the endpoint event carrying the transport's
\* identifier and only message events follow it; a request is accepted only
\* for a transport whose stream has begun.
C10_IdentifierFirst ==
    \A t \in Handles :
        /\ tState[t] = "started"
             => tSid[t] \in SessionIds /\ MapGet(transports, tSid[t]) = t
        /\ tState[t] \in {"started", "closed"} => Len(stream[t]) >= 1
        /\ stream[t] # <<>>
             => /\ stream[t][1] = <<"endpoint", tSid[t]>>
                /\ \A i \in 2..Len(stream[t]) : stream[t][i][1] = "message"
        /\ pending[t] # {} => stream[t] # <<>>

\* A message event follows the endpoint event on a stream while a request is
\* waiting on it.
C10_Witness ==
    \E t \in Handles : Len(stream[t]) >= 2 /\ pending[t] # {}

----------------------------------------------------------------------------
\* The claims about get-submission-documents, under SpecDocs.

\* The call returned a response with downloaded files.
Downloaded == doc.pc = "done" /\ doc.downloadFiles

\* The files of the response whose fetch succeeded.
Fetched == {i \in 1..Len(doc.atts) : doc.fetchOk[i]}

\* C11 as the specification states it: a fetched non-text file of at most
\* 102400 bytes is returned inline, and only a larger one is replaced by the
\* placeholder.
C11_Original ==
    Downloaded =>
        \A i \in Fetched :
            ~IsText(doc.atts[i].ctype) =>
                IF doc.atts[i].size <= 102400
                THEN doc.response.downloaded_files[i].content_base64
                        = doc.result.downloadedFiles[i].dataBase64
                ELSE doc.response.downloaded_files[i].content_base64 = Marker

\* C11: a fetched non-text file is returned inline when its size is less than
\* 102400 bytes, and is replaced by the placeholder when its size is 102400
\* bytes or more.
C11_InlineBelowLimit ==
    Downloaded =>
        \A i \in Fetched :
            ~IsText(doc.atts[i].ctype) =>
                IF doc.atts[i].size < 102400
                THEN doc.response.downloaded_files[i].content_base64
                        = doc.result.downloadedFiles[i].dataBase64
                ELSE doc.response.downloaded_files[i].content_base64 = Marker

\* A fetched non-text file of exactly 102400 bytes is in the response.
C11_Witness ==
    /\ Downloaded
    /\ \E i \in Fetched :
          /\ ~IsText(doc.atts[i].ctype)
          /\ doc.atts[i].size = 102400
          /\ doc.response.downloaded_files[i].content_base64 = Marker

\* C12 as the specification states it: a fetched text file is never replaced by
\* the placeholder and its content is returned as text; a non-text file that
\* is inlined is returned in base64.
C12_Original ==
    Downloaded =>
        \A i \in Fetched :
            LET c == doc.response.downloaded_files[i].content_base64
                d == doc.result.downloadedFiles[i].data
            IN  /\ IsText(doc.atts[i].ctype) => c = Utf8Of(d)
                /\ ~IsText(doc.atts[i].ctype) /\ c # Marker => c = Base64Of(d)

\* C12: a fetched text file is never replaced by the placeholder, whatever its
\* size; the content of every inlined file, text or not, is returned as the
\* base64 encoding of its bytes.
C12_TextNeverPlaceholder ==
    Downloaded =>
        \A i \in Fetched :
            LET c == doc.response.downloaded_files[i].content_base64
                d == doc.result.downloadedFiles[i].data
            IN  /\ IsText(doc.atts[i].ctype) => c # Marker
                /\ c # Marker => c = Base64Of(d)

\* A fetched text file larger than the limit is in the response, inline.
C12_Witness ==
    /\ Downloaded
    /\ \E i \in Fetched :
          /\ IsText(doc.atts[i].ctype)
          /\ doc.atts[i].size > 102400
          /\ doc.response.downloaded_files[i].content_base64 = Base64Of(BytesOf(i))

\* C13: with the anonymous flag the user id of the summary is the fixed marker
\* whatever the user id upstream; without it, it is the upstream user id; the
\* aggregator's record holds the upstream user id in both cases.
C13_RedactionByCaller ==
    doc.pc = "done" =>
        /\ doc.anonymous => doc.response.submission.user_id = "[ANONYMIZED]"
        /\ ~doc.anonymous => doc.response.submission.user_id = doc.user
        /\ doc.result.submission.user_id = doc.user
        /\ doc.user # "[ANONYMIZED]"

\* An anonymous call about the second user returned.
C13_Witness ==
    doc.pc = "done" /\ doc.anonymous /\ doc.user = "u2"

\* C14: without downloadFiles no file is fetched, the downloaded files of the
\* result and of the response are empty, and every attachment entry carries
\* the upstream url.
C14_NoDownload ==
    doc.pc = "done" /\ ~doc.downloadFiles =>
        /\ doc.result.fetches = 0
        /\ doc.result.downloadedFiles = <<>>
        /\ doc.response.downloaded_files = <<>>
        /\ Len(doc.response.attachments) = Len(doc.atts)
        /\ \A i \in 1..Len(doc.atts) : doc.response.attachments[i].url = UrlOf(i)

\* A call without downloadFiles about a submission of two attachments returned.
C14_Witness ==
    doc.pc = "done" /\ ~doc.downloadFiles /\ Len(doc.atts) = 2

\* C15: with downloadFiles the call returns whichever fetches fail; the
\* response has one entry per attachment, in order; the entry of a failed
\* fetch has an error and no data, the entry of a successful one has data and
\* no error.
C15_PerAttachmentFailure ==
    Downloaded =>
        /\ Len(doc.response.downloaded_files) = Len(doc.atts)
        /\ \A i \in 1..Len(doc.atts) :
              LET e == doc.response.downloaded_files[i]
              IN  /\ e.id = i
                  /\ IF doc.fetchOk[i]
                     THEN e.has_content /\ e.error = Absent
                     ELSE /\ ~e.has_content /\ e.error # Absent
                          /\ e.content_base64 \in {Absent, Marker}

\* A call returned with one fetch of two failed.
C15_Witness ==
    /\ Downloaded
    /\ Len(doc.atts) = 2
    /\ Cardinality({i \in 1..2 : ~doc.fetchOk[i]}) = 1

----------------------------------------------------------------------------
\* The claims about conversations, ordering, start-up and failures.

\* C16: the server made for a connection is connected to the transport of that
\* connection and to no other, at any time: no server is connected to two
\* transports, at once or one after the other.
C16_OwnConversation ==
    /\ \A s \in Handles : srvTransport[s] \in {0, s}
    /\ sse.pc # "idle" => sse.srv = sse.t /\ srvTransport[sse.srv] \in {0, sse.t}

\* Two connections are open, each with its own server.
C16_Witness ==
    \E s, u \in Handles :
        /\ s # u
        /\ srvTransport[s] = s /\ srvTransport[u] = u
        /\ tState[s] = "started" /\ tState[u] = "started"

\* The request that message event e answers.
AnswerTo(e) == e[2][2]

\* C17 as the specification states it: on every stream the responses appear
\* in the order in which their requests arrived.
C17_Original ==
    \A t \in Handles :
        \A i, j \in 2..Len(stream[t]) :
            i < j => AnswerTo(stream[t][i]) < AnswerTo(stream[t][j])

\* C17: a response is emitted only on the stream of the session that accepted
\* its request, only while the request is waiting there, and the request then
\* waits no longer; which of the waiting requests of a session is answered
\* next is not determined by their order of arrival.
C17_CompletionOrder ==
    [][\A t \in Handles :
          stream'[t] # stream[t] /\ stream[t] # <<>>
            => \E m \in pending[t] :
                  /\ stream'[t] = Append(stream[t], MessageEvent(m))
                  /\ pending'[t] = pending[t] \ {m}
                  /\ \A u \in Handles \ {t} :
                        stream'[u] = stream[u] /\ pending'[u] = pending[u]]_vars

\* Two requests of one session were answered, the later one first.
C17_Witness ==
    \E t \in Handles :
        /\ Len(stream[t]) >= 3
        /\ AnswerTo(stream[t][2]) > AnswerTo(stream[t][3])

\* C18: without the credential the process never comes up in either mode: no
\* listener, no stdio transport, no transport created and nothing registered.
C18_NoCredentialNoSession ==
    ~env.token =>
        /\ proc # "up"
        /\ mode = "none"
        /\ nT = 0
        /\ transports = EmptyMap
        /\ \A t \in Handles : tState[t] = "none"

\* The process exited at start-up for want of the credential.
C18_Witness ==
    ~env.token /\ proc = "exited"

C20_RejectedNotRegistered ==
    \A t \in sseRejected : MapGet(transports, tSid[t]) # t

\* C21: when the handler of GET /sse comes to call transport.start(), after
\* server.connect(transport), the transport has not been started yet.
C21_StartedOnce ==
    sse.pc = "start" => tState[sse.t] # "started"

\* C22: in the response, the entry of a file whose fetch failed has
\* has_content false and no content_base64 at all, neither encoded bytes nor
\* the placeholder, whatever its size and content type.
C22_FailedEntryNoContent ==
    Downloaded =>
        \A i \in (1..Len(doc.atts)) \ Fetched :
            LET e == doc.response.downloaded_files[i]
            IN  /\ e.error # Absent
                /\ ~e.has_content
                /\ e.content_base64 = Absent

====
